---- MODULE Spec2Model ----
(***************************************************************************)
(* apkeep download sources: apkmirror.rs and apkcombo.rs.                  *)
(*                                                                         *)
(* download_apps drives one future per (app_id, version) pair through      *)
(* futures::stream::iter(..).map(..).buffer_unordered(parallel); each      *)
(* future sleeps, runs download_app and prints its outcome.  A step of the *)
(* model is what one poll of a future does between two suspension points   *)
(* (.await): everything the code runs synchronously after a response       *)
(* arrives, up to the next .await, is part of the same action.             *)
(* list_versions runs its identifiers one after the other in a for loop;   *)
(* its steps are the .awaits of that loop.                                 *)
(*                                                                         *)
(* Text (identifiers, versions, header values, filenames) is a sequence of *)
(* tokens; a token is a character or a literal the code looks for.         *)
(***************************************************************************)
EXTENDS Integers, Sequences, FiniteSets, TLC

VARIABLES
    source,         \* which module runs: "apkmirror" or "apkcombo"
    app_ids,        \* download_apps argument: sequence of [app_id, version]
    parallel,       \* download_apps argument
    sleep_duration, \* download_apps argument (ticks of the clock)
    batch_pc,       \* "start" | "polling" | "returned"
    next_item,      \* position of stream::iter(app_ids): next item to pull
    in_progress,    \* the futures held by buffer_unordered
    pc,             \* per request: the .await the future is suspended at
    stage,          \* per request: the stage of download_app being run
    url,            \* per request: the URL of the GET issued last
    now,            \* the clock
    admitted_at,    \* per request: the clock when its future was first polled
    fetched,        \* per request: the stages whose GET has been issued
    passed,         \* per request: the stages completed (2xx, read, matched)
    filename,       \* per request: the local `filename` of download_app
    outcome,        \* per request: the Result download_app returned
    stdout,         \* the result lines printed so far
    files,          \* the output directory
    html,           \* per request: the body read last (`html`, `app_html`, ...)
    resolve_in,     \* filename derivation alone: its inputs
    resolve_out     \* filename derivation alone: its result

vars == <<source, app_ids, parallel, sleep_duration, batch_pc, next_item,
          in_progress, pc, stage, url, now, admitted_at, fetched, passed, filename,
          outcome, stdout, files, html, resolve_in, resolve_out>>

(***************************************************************************)
(* Bounds of the model.                                                    *)
(***************************************************************************)
MaxBatch == 2

MaxParallel == 2

MaxSleep == 1

MaxTime == 1

MaxLines == 2

MaxHdrLen == 4

(***************************************************************************)
(* Option<T>: None is the empty sequence, Some(x) the one-element one.     *)
(***************************************************************************)
None == <<>>

Some(x) == <<x>>

IsSome(o) == o # <<>>

Unwrap(o) == o[1]

Sources == {"apkmirror", "apkcombo"}

\* The (app_id, version) pairs a batch is drawn from.
Requests ==
    { [app_id |-> <<"a">>, version |-> None],
      [app_id |-> <<"a">>, version |-> Some(<<"1">>)],
      [app_id |-> <<"b">>, version |-> None] }

RECURSIVE SeqsUpTo(_, _)
SeqsUpTo(S, n) ==
    IF n = 0 THEN {<<>>}
    ELSE LET shorter == SeqsUpTo(S, n - 1)
         IN  shorter \cup {Append(s, x) : s \in {t \in shorter : Len(t) = n - 1}, x \in S}

Batches == SeqsUpTo(Requests, MaxBatch)

Idx == 1..Len(app_ids)

Min(a, b) == IF a < b THEN a ELSE b

Range(seq) == {seq[k] : k \in 1..Len(seq)}

(***************************************************************************)
(* download_app: the stages, in the order the function issues their GETs.  *)
(***************************************************************************)
\* StageList with the version search inserted after the app page.
StageListInserted(src, version) ==
    IF src = "apkmirror"
    THEN <<"search", "app_page">>
           \o (IF IsSome(version) THEN <<"version_search">> ELSE <<>>)
           \o <<"version_page", "download_page", "download">>
    ELSE <<"search", "app_page", "download_page", "download">>

StageList(src, version) ==
    IF src = "apkmirror"
    THEN <<"search",
           IF IsSome(version) THEN "version_search" ELSE "app_page",
           "version_page", "download_page", "download">>
    ELSE <<"search", "app_page", "download_page", "download">>

\* apkcombo's download_app takes no version: download_apps drops it.
ChainVersion(src, version) == IF src = "apkmirror" THEN version ELSE None

StagePos(list, s) == CHOOSE k \in 1..Len(list) : list[k] = s

NextStage(src, version, s) ==
    LET list == StageList(src, version)
    IN  list[StagePos(list, s) + 1]

\* A message built by format!: the format string and its arguments.
Msg(fmt, args) == [fmt |-> fmt, args |-> args]

NoReason == Msg("", <<>>)

\* What reqwest / std::io print for an error, and the status line of a non-2xx.
ErrText == <<"e">>

Statuses == {200, 404}

\* A status check that lets every status through.
IsSuccessAlways(status) == TRUE

IsSuccess(status) == status >= 200 /\ status <= 299

StatusText(status) == <<ToString(status)>>

\* .send().await failed: map_err of the stage.
SendErrFmt(s) ==
    CASE s = "search"         -> "Failed to search for app: {}"
      [] s = "version_search" -> "Failed to search for version: {}"
      [] s = "app_page"       -> "Failed to access app page: {}"
      [] s = "version_page"   -> "Failed to access version page: {}"
      [] s = "download_page"  -> "Failed to access download page: {}"
      [] s = "download"       -> "Failed to download APK: {}"

\* HttpErrFmt with one message for every stage.
HttpErrFmtAnyStage(s) == "Request failed: HTTP {}"

\* !status().is_success(): the early return of the stage.
HttpErrFmt(s) ==
    CASE s = "search"         -> "Failed to search for app: HTTP {}"
      [] s = "version_search" -> "Failed to search for version: HTTP {}"
      [] s = "app_page"       -> "Failed to access app page: HTTP {}"
      [] s = "version_page"   -> "Failed to access version page: HTTP {}"
      [] s = "download_page"  -> "Failed to access download page: HTTP {}"
      [] s = "download"       -> "Failed to download APK: HTTP {}"

\* .text().await / .bytes().await failed: map_err of the stage.
ReadErrFmt(s) ==
    CASE s = "search"         -> "Failed to read search response: {}"
      [] s = "version_search" -> "Failed to read version search response: {}"
      [] s = "app_page"       -> "Failed to read app page: {}"
      [] s = "version_page"   -> "Failed to read version page: {}"
      [] s = "download_page"  -> "Failed to read download page: {}"
      [] s = "download"       -> "Failed to read APK data: {}"

\* ok_or_else of the stage's extraction.
NotFoundMsg(src, s, app_id, version) ==
    IF src = "apkmirror"
    THEN CASE s = "search"         -> Msg("App {} not found on APKMirror", <<app_id>>)
           [] s = "version_search" -> Msg("Version {} not found for {}", <<Unwrap(version), app_id>>)
           [] s = "app_page"       -> Msg("Latest version link not found for {}", <<app_id>>)
           [] s = "version_page"   -> Msg("Download page link not found for {}", <<app_id>>)
           [] s = "download_page"  -> Msg("Final download link not found for {}", <<app_id>>)
    ELSE CASE s = "search"         -> Msg("App {} not found on APKCombo", <<app_id>>)
           [] s = "app_page"       -> Msg("Download link not found for {}", <<app_id>>)
           [] s = "download_page"  -> Msg("Final APK download link not found for {}", <<app_id>>)

(***************************************************************************)
(* Pages.  A page is its lines in document order; a line is the set of     *)
(* things the code tests it for: the literals of the stage's line filter   *)
(* ("widget_appRow", "downloadButton", the app_id, the version string) and *)
(* "pattern": the stage's regular expression matches on the line.          *)
(***************************************************************************)
LineFilterWords(src, s) ==
    IF src = "apkmirror"
    THEN CASE s = "search"         -> {"widget_appRow", "app_id"}
           [] s = "version_search" -> {"version_str", "downloadButton"}
           [] s = "app_page"       -> {"downloadButton"}
           [] OTHER                -> {}
    ELSE CASE s = "search"         -> {"app_id"}
           [] OTHER                -> {}

\* The words a line of the stage's page may hold.
PageWords(src, s) == LineFilterWords(src, s) \cup {"pattern"}

Pages(src, s) == SeqsUpTo(SUBSET PageWords(src, s), MaxLines)

\* The bodies the servers answer a batch with: the empty page, and the page
\* of one line that holds every word of the stage.
PageSamples(src, s) == {<<>>, <<PageWords(src, s)>>}

\* A line filter satisfied by any one of its words.
LineFilterAnyWord(src, s, line) ==
    LineFilterWords(src, s) = {} \/ LineFilterWords(src, s) \cap line # {}

LineFilter(src, s, line) == LineFilterWords(src, s) \subseteq line

Captures(line) == "pattern" \in line

\* The first of the line numbers `hits`, or 0 when there is none.
First(hits) ==
    IF hits = {} THEN 0 ELSE CHOOSE k \in hits : \A m \in hits : k <= m

\* lines().find(filter).and_then(|line| re.captures(line)): the first line
\* that satisfies the filter is the only one the pattern is tried on.
FindAndThen(src, s, page) ==
    LET k == First({m \in 1..Len(page) : LineFilter(src, s, page[m])})
    IN  IF k # 0 /\ Captures(page[k]) THEN Some(k) ELSE None

\* lines().filter(filter).find_map(|line| re.captures(line)).
FilterFindMap(src, s, page) ==
    LET k == First({m \in 1..Len(page) :
                       LineFilter(src, s, page[m]) /\ Captures(page[m])})
    IN  IF k # 0 THEN Some(k) ELSE None

\* re.captures(&html): the first match in the whole body.
CapturesBody(page) ==
    LET k == First({m \in 1..Len(page) : Captures(page[m])})
    IN  IF k # 0 THEN Some(k) ELSE None

\* The extraction of a stage: the line whose capture is taken, or None.
Extract(src, s, page) ==
    IF src = "apkmirror"
    THEN IF s \in {"search", "version_search", "app_page"}
         THEN FindAndThen(src, s, page)
         ELSE CapturesBody(page)
    ELSE IF s = "search"
         THEN FilterFindMap(src, s, page)
         ELSE CapturesBody(page)

(***************************************************************************)
(* Links and URLs.  A link is the text an href holds; the href of line k   *)
(* of a page is written with k, so that the hrefs of a page differ.        *)
(***************************************************************************)
Http == "http"

\* The forms of an href: with scheme and host, a path from the root, and a
\* relative path whose first segment begins with "http".
Link(form, k) ==
    CASE form = "absolute" -> <<Http, "s://host", "/", ToString(k)>>
      [] form = "rooted"   -> <<"/", ToString(k)>>
      [] form = "httpish"  -> <<Http, "-dir/", ToString(k)>>

\* The forms of href the regular expression of the stage can capture.
LinkForms(src, s) ==
    IF src = "apkmirror"
    THEN CASE s \in {"search", "version_search", "app_page"} -> {"absolute"}
           [] s = "version_page"  -> {"rooted"}
           [] s = "download_page" -> {"absolute", "rooted", "httpish"}
           [] OTHER               -> {}
    ELSE CASE s = "search"        -> {"rooted"}
           [] s = "app_page"      -> {"absolute", "rooted", "httpish"}
           [] s = "download_page" -> {"absolute"}
           [] OTHER               -> {}

\* The form of the hrefs the servers answer a batch with.
LinkSamples(src, s) ==
    IF "rooted" \in LinkForms(src, s) THEN {"rooted"} ELSE LinkForms(src, s)

BaseOrigin(src) ==
    IF src = "apkmirror" THEN <<"https://www.apkmirror.com">> ELSE <<"https://apkcombo.com">>

\* let search_url = format!(...).
SearchUrl(src, app_id) ==
    IF src = "apkmirror"
    THEN BaseOrigin(src) \o <<"/?post_type=app_release&searchtype=apk&s=">> \o app_id
    ELSE BaseOrigin(src) \o <<"/search/">> \o app_id \o <<"/">>

\* download_url.starts_with("http").
StartsWithHttp(link) == link # <<>> /\ link[1] = Http

\* The URL of the GET that follows stage s, made from the link captured there.
NextUrl(src, s, link, version) ==
    IF src = "apkmirror"
    THEN CASE s = "search" ->
                IF IsSome(version) THEN link \o <<"/?q=">> \o Unwrap(version) ELSE link
           [] s \in {"version_search", "app_page"}  -> link
           [] s \in {"version_page", "download_page"} -> BaseOrigin(src) \o link
    ELSE CASE s = "search"        -> BaseOrigin(src) \o link
           [] s = "app_page"      -> IF StartsWithHttp(link) THEN link
                                     ELSE BaseOrigin(src) \o link
           [] s = "download_page" -> link

(***************************************************************************)
(* The filename of the saved file.  A content-disposition value is a       *)
(* sequence of tokens: the literal "filename=", the quote, the semicolon,  *)
(* a visible ASCII character, and a byte that is not visible ASCII.        *)
(***************************************************************************)
FilenameEq == "filename="

Quote == "\""

Semi == ";"

NonAscii == "0xE9"

HdrTokens == {FilenameEq, Quote, Semi, "x", NonAscii}

HeaderValues == SeqsUpTo(HdrTokens, MaxHdrLen)

\* HeaderValue::to_str: Err when a byte is not visible ASCII.
ToStr(hv) ==
    IF \E k \in 1..Len(hv) : hv[k] = NonAscii THEN None ELSE Some(hv)

\* First alternative, "([^"]+)", tried right after "filename=" at p.
QuotedCapture(s, p) ==
    IF p + 1 <= Len(s) /\ s[p + 1] = Quote
    THEN LET closing == {q \in (p + 2)..Len(s) : s[q] = Quote}
         IN  IF closing = {} THEN None
             ELSE LET q == CHOOSE c \in closing : \A d \in closing : c <= d
                  IN  IF q > p + 2 THEN Some(SubSeq(s, p + 2, q - 1)) ELSE None
    ELSE None

\* Second alternative, ([^;]+), tried right after "filename=" at p.
BareCapture(s, p) ==
    LET stops == {q \in (p + 1)..Len(s) : s[q] = Semi}
        end == IF stops = {} THEN Len(s)
               ELSE (CHOOSE c \in stops : \A d \in stops : c <= d) - 1
    IN  IF end >= p + 1 THEN Some(SubSeq(s, p + 1, end)) ELSE None

\* CaptureAt with the alternatives tried in the other order.
CaptureAtBareFirst(s, p) ==
    IF s[p] # FilenameEq THEN None
    ELSE IF IsSome(BareCapture(s, p)) THEN BareCapture(s, p)
    ELSE QuotedCapture(s, p)

\* cap.get(1).unwrap_or_else(|| cap.get(2).unwrap()) at a match starting at p.
CaptureAt(s, p) ==
    IF s[p] # FilenameEq THEN None
    ELSE IF IsSome(QuotedCapture(s, p)) THEN QuotedCapture(s, p)
    ELSE BareCapture(s, p)

\* re.captures(s): the leftmost position the pattern matches at.
FilenameCaptures(s) ==
    LET starts == {p \in 1..Len(s) : IsSome(CaptureAt(s, p))}
    IN  IF starts = {} THEN None
        ELSE CaptureAt(s, CHOOSE p \in starts : \A r \in starts : p <= r)

Apk == ".apk"

Dash == "-"

\* Synthesized without the version branch.
SynthesizedNoVersion(src, app_id, version) == app_id \o <<Apk>>

\* The unwrap_or_else branch: the name made from app_id (and version).
Synthesized(src, app_id, version) ==
    IF src = "apkmirror" /\ IsSome(version)
    THEN app_id \o <<Dash>> \o Unwrap(version) \o <<Apk>>
    ELSE app_id \o <<Apk>>

\* let filename = response.headers().get("content-disposition")...
ResolveFilename(src, header, app_id, version) ==
    LET str == IF IsSome(header) THEN ToStr(Unwrap(header)) ELSE None
        cap == IF IsSome(str) THEN FilenameCaptures(Unwrap(str)) ELSE None
    IN  IF IsSome(cap) THEN Unwrap(cap) ELSE Synthesized(src, app_id, version)

\* The content-disposition headers the binary responses of a batch carry.
HeaderSamples == {None, Some(<<FilenameEq, Quote, "x", Quote>>)}

(***************************************************************************)
(* download_apps.                                                          *)
(***************************************************************************)
Ok(name) == [ok |-> TRUE, filename |-> name, reason |-> NoReason]

Err(reason) == [ok |-> FALSE, filename |-> <<>>, reason |-> reason]

\* println! of the match on download_app's result (and apkcombo's warning).
Line(kind, i, res) ==
    [kind |-> kind, i |-> i, app_id |-> app_ids[i].app_id,
     filename |-> res.filename, reason |-> res.reason]

ResultLine(i, res) ==
    Line(IF res.ok THEN "Successfully downloaded" ELSE "Error downloading", i, res)

\* apkcombo prints its warning when a future with a version is first polled.
WarningLines(new) ==
    LET Warns(j) == source = "apkcombo" /\ IsSome(app_ids[j].version)
        RECURSIVE From(_)
        From(j) == IF j \notin new THEN <<>>
                   ELSE (IF Warns(j) THEN <<Line("Warning", j, Err(NoReason))>> ELSE <<>>)
                        \o From(j + 1)
    IN  IF new = {} THEN <<>> ELSE From(CHOOSE j \in new : \A m \in new : j <= m)

\* Room without the cap: every item of the stream is taken at once.
RoomUnbounded(held) == Len(app_ids) - Cardinality(held)

\* buffer_unordered: how many more futures the queue takes.
Room(held) == parallel - Cardinality(held)

\* Pulled from the end of what is left of the stream.
PulledFromEnd(held) ==
    LET k == Min(Room(held), Len(app_ids) - next_item + 1)
        left == Len(app_ids) - next_item + 1
    IN  (left - k + 1)..left

\* buffer_unordered's poll_next, first loop: the stream items pulled into
\* the queue while it holds fewer than `parallel` futures.
Pulled(held) ==
    LET k == Min(Room(held), Len(app_ids) - next_item + 1)
    IN  next_item..(next_item + k - 1)

\* One poll of `buffered` with `held` the futures still in the queue and
\* `lines` what the poll's completed future printed: the queue is refilled,
\* the new futures are polled up to their sleep, and the while loop ends
\* when the queue is empty and the stream is exhausted.
PollBuffered(held, dones, lines) ==
    LET new == Pulled(held)
    IN  /\ in_progress' = held \cup new
        /\ next_item' = next_item + Cardinality(new)
        /\ pc' = [j \in Idx |-> IF j \in dones THEN "done"
                                ELSE IF j \in new THEN "sleep" ELSE pc[j]]
        /\ admitted_at' = [j \in Idx |-> IF j \in new THEN now ELSE admitted_at[j]]
        /\ stdout' = stdout \o lines \o WarningLines(new)
        /\ batch_pc' = IF held \cup new = {} THEN "returned" ELSE "polling"

\* Finish with a retry: a failed request is reported and run again.
FinishAndRetry(i, res) ==
    IF res.ok
    THEN /\ outcome' = [outcome EXCEPT ![i] = Some(res)]
         /\ PollBuffered(in_progress \ {i}, {i}, <<ResultLine(i, res)>>)
    ELSE /\ outcome' = [outcome EXCEPT ![i] = Some(res)]
         /\ stdout' = Append(stdout, ResultLine(i, res))
         /\ pc' = [pc EXCEPT ![i] = "sleep"]
         /\ UNCHANGED <<in_progress, next_item, admitted_at, batch_pc>>

\* Finish with an abort: the first failure ends the batch.
FinishOrAbort(i, res) ==
    IF res.ok
    THEN /\ outcome' = [outcome EXCEPT ![i] = Some(res)]
         /\ PollBuffered(in_progress \ {i}, {i}, <<ResultLine(i, res)>>)
    ELSE /\ outcome' = [outcome EXCEPT ![i] = Some(res)]
         /\ stdout' = Append(stdout, ResultLine(i, res))
         /\ pc' = [j \in Idx |-> IF j = i THEN "done" ELSE pc[j]]
         /\ in_progress' = {}
         /\ batch_pc' = "returned"
         /\ UNCHANGED <<next_item, admitted_at>>

\* Finish of an ordered buffer: a result is printed only once the results
\* of all the requests before it in the input are printed.
FinishInInputOrder(i, res) ==
    LET out == [outcome EXCEPT ![i] = Some(res)]
        RECURSIVE Flush(_)
        Flush(j) == IF j \in Idx /\ IsSome(out[j])
                    THEN <<ResultLine(j, Unwrap(out[j]))>> \o Flush(j + 1)
                    ELSE <<>>
        printed == Cardinality({k \in 1..Len(stdout) :
                                   stdout[k].kind # "Warning"})
    IN  /\ outcome' = out
        /\ PollBuffered(in_progress \ {i}, {i},
                        IF i = printed + 1 THEN Flush(i) ELSE <<>>)

\* The future of request i completes with download_app's result res.
Finish(i, res) ==
    /\ outcome' = [outcome EXCEPT ![i] = Some(res)]
    /\ PollBuffered(in_progress \ {i}, {i}, <<ResultLine(i, res)>>)

Init ==
    /\ source \in Sources
    /\ app_ids \in Batches
    /\ parallel \in 1..MaxParallel
    /\ sleep_duration \in {0, MaxSleep}
    /\ batch_pc = "start"
    /\ next_item = 1
    /\ in_progress = {}
    /\ pc = [i \in Idx |-> "queued"]
    /\ stage = [i \in Idx |-> ""]
    /\ url = [i \in Idx |-> <<>>]
    /\ now = 0
    /\ admitted_at = [i \in Idx |-> 0]
    /\ fetched = [i \in Idx |-> <<>>]
    /\ passed = [i \in Idx |-> <<>>]
    /\ filename = [i \in Idx |-> None]
    /\ outcome = [i \in Idx |-> None]
    /\ stdout = <<>>
    /\ files = {}
    /\ html = [i \in Idx |-> <<>>]
    /\ resolve_in = None
    /\ resolve_out = None

\* download_apps is called: the first poll of `buffered`.
Start ==
    /\ batch_pc = "start"
    /\ PollBuffered({}, {}, <<>>)
    /\ UNCHANGED <<source, app_ids, parallel, sleep_duration, stage, url, now,
                   fetched, passed, filename, outcome, files, html, resolve_in, resolve_out>>

\* The clock advances.  It is capped only when no sleep is left to expire.
Tick ==
    /\ batch_pc # "start"
    /\ \/ now < MaxTime
       \/ \E i \in Idx : pc[i] = "sleep" /\ now < admitted_at[i] + sleep_duration
    /\ now' = now + 1
    /\ UNCHANGED <<source, app_ids, parallel, sleep_duration, batch_pc, next_item,
                   in_progress, pc, stage, url, admitted_at, fetched, passed, filename,
                   outcome, stdout, files, html, resolve_in, resolve_out>>

\* A sleep that is over at once.
SleepOverAtOnce(i) == TRUE

\* A sleep that also waits for the requests before i to be done.
SleepOverAfterSiblings(i) ==
    /\ now >= admitted_at[i] + sleep_duration
    /\ \A j \in 1..(i - 1) : pc[j] = "done"

\* A sleep whose deadline is counted from the call of download_apps.
SleepOverFromCall(i) == now >= sleep_duration

\* sleep(sleep_duration).await is over once the clock reached its deadline.
SleepOver(i) == now >= admitted_at[i] + sleep_duration

\* client.get(u).send(): the GET of stage s is issued.
Issue(i, s, u) ==
    /\ stage' = [stage EXCEPT ![i] = s]
    /\ url' = [url EXCEPT ![i] = u]
    /\ fetched' = [fetched EXCEPT ![i] = Append(@, s)]
    /\ pc' = [pc EXCEPT ![i] = "send"]

\* The sleep of request i is over and download_app starts: the client is
\* built and the search GET is issued.
BeginDownload(i) ==
    /\ pc[i] = "sleep"
    /\ SleepOver(i)
    /\ Issue(i, "search", SearchUrl(source, app_ids[i].app_id))
    /\ UNCHANGED <<source, app_ids, parallel, sleep_duration, batch_pc, next_item,
                   in_progress, now, admitted_at, passed, filename, outcome,
                   stdout, files, html, resolve_in, resolve_out>>

\* The sleep is over and Client::builder().build() fails.
ClientBuildFails(i) ==
    /\ pc[i] = "sleep"
    /\ SleepOver(i)
    /\ Finish(i, Err(Msg("Failed to create HTTP client: {}", <<ErrText>>)))
    /\ UNCHANGED <<source, app_ids, parallel, sleep_duration, stage, url, now,
                   fetched, passed, filename, files, html, resolve_in, resolve_out>>

Request(i) == app_ids[i]

\* The version download_app of the source works with.
Version(i) == ChainVersion(source, Request(i).version)

\* .send().await of the current stage returns Err.
SendFails(i) ==
    /\ pc[i] = "send"
    /\ Finish(i, Err(Msg(SendErrFmt(stage[i]), <<ErrText>>)))
    /\ UNCHANGED <<source, app_ids, parallel, sleep_duration, stage, url, now,
                   fetched, passed, filename, files, html, resolve_in, resolve_out>>

\* .send().await of the current stage returns a response with `status`.
\* A page stage goes on to read the body; the binary stage derives the
\* filename from the response's headers and goes on to read the bytes.
SendResponds(i, status) ==
    /\ pc[i] = "send"
    /\ \/ /\ ~IsSuccess(status)
          /\ Finish(i, Err(Msg(HttpErrFmt(stage[i]), <<StatusText(status)>>)))
          /\ UNCHANGED filename
       \/ /\ IsSuccess(status)
          /\ stage[i] # "download"
          /\ pc' = [pc EXCEPT ![i] = "text"]
          /\ UNCHANGED <<batch_pc, next_item, in_progress, admitted_at,
                         filename, outcome, stdout>>
       \/ /\ IsSuccess(status)
          /\ stage[i] = "download"
          /\ \E header \in HeaderSamples :
                filename' = [filename EXCEPT ![i] =
                    Some(ResolveFilename(source, header, Request(i).app_id, Version(i)))]
          /\ pc' = [pc EXCEPT ![i] = "bytes"]
          /\ UNCHANGED <<batch_pc, next_item, in_progress, admitted_at,
                         outcome, stdout>>
    /\ UNCHANGED <<source, app_ids, parallel, sleep_duration, stage, url, now,
                   fetched, passed, files, html, resolve_in, resolve_out>>

\* .text().await of the current page stage returns Err.
TextFails(i) ==
    /\ pc[i] = "text"
    /\ Finish(i, Err(Msg(ReadErrFmt(stage[i]), <<ErrText>>)))
    /\ UNCHANGED <<source, app_ids, parallel, sleep_duration, stage, url, now,
                   fetched, passed, filename, files, html, resolve_in, resolve_out>>

\* The body `page` of stage s, whose hrefs are of `form`, has been read by
\* request i: the extraction either fails the request or issues the GET of
\* the next stage at the URL made from the captured link.
Extracted(i, s, page, form) ==
    IF IsSome(Extract(source, s, page))
    THEN /\ passed' = [passed EXCEPT ![i] = Append(@, s)]
         /\ Issue(i, NextStage(source, Version(i), s),
                  NextUrl(source, s, Link(form, Unwrap(Extract(source, s, page))),
                          Version(i)))
         /\ UNCHANGED <<batch_pc, next_item, in_progress, admitted_at, outcome, stdout>>
    ELSE /\ Finish(i, Err(NotFoundMsg(source, s, Request(i).app_id, Version(i))))
         /\ UNCHANGED <<stage, url, fetched, passed>>

\* .text().await of the current page stage returns the body.
TextResponds(i, page, form) ==
    /\ pc[i] = "text"
    /\ html' = [html EXCEPT ![i] = page]
    /\ Extracted(i, stage[i], page, form)
    /\ UNCHANGED <<source, app_ids, parallel, sleep_duration, now, filename,
                   files, resolve_in, resolve_out>>

\* Created that keeps a file that already exists.
CreatedIfAbsent(name, i, complete) ==
    IF \E f \in files : f.name = name THEN files
    ELSE files \cup {[name |-> name, by |-> i, complete |-> complete]}

\* The output directory after File::create(output_path.join(name)) by i;
\* `complete` tells whether write_all wrote the data.
Created(name, i, complete) ==
    {f \in files : f.name # name} \cup {[name |-> name, by |-> i, complete |-> complete]}

\* BytesFails when the file is created before the body is read.
BytesFailsAfterCreate(i) ==
    /\ pc[i] = "bytes"
    /\ files' = Created(Unwrap(filename[i]), i, FALSE)
    /\ Finish(i, Err(Msg(ReadErrFmt(stage[i]), <<ErrText>>)))
    /\ UNCHANGED <<source, app_ids, parallel, sleep_duration, stage, url, now,
                   fetched, passed, filename, html, resolve_in, resolve_out>>

\* .bytes().await of the binary returns Err.
BytesFails(i) ==
    /\ pc[i] = "bytes"
    /\ Finish(i, Err(Msg(ReadErrFmt(stage[i]), <<ErrText>>)))
    /\ UNCHANGED <<source, app_ids, parallel, sleep_duration, stage, url, now,
                   fetched, passed, filename, files, html, resolve_in, resolve_out>>

\* .bytes().await returns the data: the file is created and written.
BytesResponds(i) ==
    /\ pc[i] = "bytes"
    /\ \/ /\ Finish(i, Err(Msg("Failed to create output file: {}", <<ErrText>>)))
          /\ UNCHANGED <<files, passed>>
       \/ /\ files' = Created(Unwrap(filename[i]), i, FALSE)
          /\ Finish(i, Err(Msg("Failed to write APK data to file: {}", <<ErrText>>)))
          /\ UNCHANGED passed
       \/ /\ files' = Created(Unwrap(filename[i]), i, TRUE)
          /\ passed' = [passed EXCEPT ![i] = Append(@, stage[i])]
          /\ Finish(i, Ok(Unwrap(filename[i])))
    /\ UNCHANGED <<source, app_ids, parallel, sleep_duration, stage, url, now,
                   fetched, filename, html, resolve_in, resolve_out>>

Next ==
    \/ Start
    \/ Tick
    \/ \E i \in Idx : BeginDownload(i)
    \/ \E i \in Idx : ClientBuildFails(i)
    \/ \E i \in Idx : SendFails(i)
    \/ \E i \in Idx : \E status \in Statuses : SendResponds(i, status)
    \/ \E i \in Idx : TextFails(i)
    \/ \E i \in Idx : \E page \in PageSamples(source, stage[i]) :
          \E form \in LinkSamples(source, stage[i]) : TextResponds(i, page, form)
    \/ \E i \in Idx : BytesFails(i)
    \/ \E i \in Idx : BytesResponds(i)

Spec == Init /\ [][Next]_vars

\* Any step of the future of request i: its sleep expires, or one of its
\* .awaits returns.
TaskStep(i) ==
    \/ BeginDownload(i)
    \/ ClientBuildFails(i)
    \/ SendFails(i)
    \/ \E status \in Statuses : SendResponds(i, status)
    \/ TextFails(i)
    \/ \E page \in PageSamples(source, stage[i]) :
          \E form \in LinkSamples(source, stage[i]) : TextResponds(i, page, form)
    \/ BytesFails(i)
    \/ BytesResponds(i)

\* The executor polls the batch, the clock runs, and every sleep, GET, body
\* read and file write of a polled future eventually returns.
Fairness ==
    /\ WF_vars(Start)
    /\ WF_vars(Tick)
    /\ \A i \in 1..MaxBatch : WF_vars(i \in Idx /\ TaskStep(i))

FairSpec == Init /\ [][Next]_vars /\ Fairness

(***************************************************************************)
(* download_app alone: one request with no pacing delay, every page of up  *)
(* to MaxLines lines and every form of href.                               *)
(***************************************************************************)
InitChain == Init /\ Len(app_ids) = 1 /\ parallel = 1 /\ sleep_duration = 0

NextChain ==
    \/ Start
    \/ \E i \in Idx : BeginDownload(i)
    \/ \E i \in Idx : ClientBuildFails(i)
    \/ \E i \in Idx : SendFails(i)
    \/ \E i \in Idx : \E status \in Statuses : SendResponds(i, status)
    \/ \E i \in Idx : TextFails(i)
    \/ \E i \in Idx : \E page \in Pages(source, stage[i]) :
          \E form \in LinkForms(source, stage[i]) : TextResponds(i, page, form)
    \/ \E i \in Idx : BytesFails(i)
    \/ \E i \in Idx : BytesResponds(i)

ChainSpec == InitChain /\ [][NextChain]_vars

(***************************************************************************)
(* The filename derivation alone (the `let filename = ...` statement of    *)
(* download_app), applied to every content-disposition value of up to      *)
(* MaxHdrLen tokens, for one request of either source.                     *)
(***************************************************************************)
InitResolve ==
    /\ source \in Sources
    /\ app_ids \in {<<r>> : r \in Requests}
    /\ parallel = 1
    /\ sleep_duration = 0
    /\ batch_pc = "filename"
    /\ next_item = 1
    /\ in_progress = {}
    /\ pc = [i \in Idx |-> "queued"]
    /\ stage = [i \in Idx |-> "download"]
    /\ url = [i \in Idx |-> <<>>]
    /\ now = 0
    /\ admitted_at = [i \in Idx |-> 0]
    /\ fetched = [i \in Idx |-> <<>>]
    /\ passed = [i \in Idx |-> <<>>]
    /\ filename = [i \in Idx |-> None]
    /\ outcome = [i \in Idx |-> None]
    /\ stdout = <<>>
    /\ files = {}
    /\ html = [i \in Idx |-> <<>>]
    /\ resolve_in \in {Some(h) : h \in {None} \cup {Some(hv) : hv \in HeaderValues}}
    /\ resolve_out = None

\* The statement runs on the response whose content-disposition is resolve_in.
Resolve ==
    /\ batch_pc = "filename"
    /\ resolve_out = None
    /\ resolve_out' =
          Some(ResolveFilename(source, Unwrap(resolve_in), Request(1).app_id, Version(1)))
    /\ UNCHANGED <<source, app_ids, parallel, sleep_duration, batch_pc, next_item,
                   in_progress, pc, stage, url, now, admitted_at, fetched, passed,
                   filename, outcome, stdout, files, html, resolve_in>>

NextResolve == Resolve

FnSpec == InitResolve /\ [][NextResolve]_vars

(***************************************************************************)
(* list_versions.  A line of the detail page is what the two regular       *)
(* expressions capture on it: the version of an infoSlide-value element    *)
(* and the date of a datetime_utc element, each possibly absent.  A        *)
(* version is a sequence of tokens, so that "1.0" is a substring of        *)
(* "1.0.1"; the dates and the rest of a line hold no version string.       *)
(***************************************************************************)
MaxListLines == 3

VersionStrs == {<<"1.0">>, <<"1.0", ".1">>}

Dates == {"d1", "d2"}

OptionOf(S) == {None} \cup {Some(x) : x \in S}

ListLines == [version : OptionOf(VersionStrs), date : OptionOf(Dates)]

Blank == [version |-> None, date |-> None]

\* .take(5)
Window == 5

\* The detail pages: every page of up to MaxListLines lines, and the pages
\* where a date follows a version marker at a distance around the window.
ListPages ==
    SeqsUpTo(ListLines, MaxListLines)
      \cup {<<[version |-> Some(v), date |-> None]>>
               \o [k \in 1..n |-> Blank]
               \o <<[version |-> None, date |-> Some("d1")]>> :
            v \in VersionStrs, n \in (Window - 2)..Window}

\* The detail pages the server answers a listing of several identifiers with.
ListPageSamples ==
    { <<>>,
      <<[version |-> Some(<<"1.0">>), date |-> Some("d1")]>>,
      <<[version |-> Some(<<"1.0", ".1">>), date |-> None],
        [version |-> Some(<<"1.0">>), date |-> Some("d2")]>> }

\* a occurs in b as a run of consecutive tokens.
Infix(a, b) ==
    \E k \in 0..(Len(b) - Len(a)) : SubSeq(b, k + 1, k + Len(a)) = a

\* l.contains(&version)
LineContains(line, v) == IsSome(line.version) /\ Infix(v, Unwrap(line.version))

\* lines().skip_while(|l| !l.contains(&version)).take(5).find_map(date_re):
\* the date of the first line with one among the Window lines that start at
\* the first line of the page that contains the version string.
NearbyDate(page, v) ==
    LET m == First({k \in 1..Len(page) : LineContains(page[k], v)})
        d == First({k \in m..Min(m + Window - 1, Len(page)) :
                       m # 0 /\ IsSome(page[k].date)})
    IN  IF d # 0 THEN page[d].date ELSE None

UnknownDate == "Unknown date"

\* The (version, date) pushed for line k, which holds a version marker.
Entry(page, k) ==
    LET v == Unwrap(page[k].version)
        date == IF IsSome(page[k].date) THEN page[k].date ELSE NearbyDate(page, v)
    IN  <<v, IF IsSome(date) THEN Unwrap(date) ELSE UnknownDate>>

\* for line in app_html.lines() { ... versions.push(..) }: `versions` after
\* the lines from k on.
RECURSIVE VersionsFrom(_, _)
VersionsFrom(page, k) ==
    IF k > Len(page) THEN <<>>
    ELSE (IF IsSome(page[k].version) THEN <<Entry(page, k)>> ELSE <<>>)
         \o VersionsFrom(page, k + 1)

Versions(page) == VersionsFrom(page, 1)

\* A line list_versions prints for identifier i (0: for no identifier).
ListLine(kind, i, args) ==
    [kind |-> kind, i |-> i,
     app_id |-> IF i \in Idx THEN app_ids[i].app_id ELSE <<>>, args |-> args]

ListHeader(i) == ListLine("Listing versions for {} on APKMirror:", i, <<>>)

\* The line printed before `continue`.
ListErrFmt(s, what) ==
    CASE s = "search" /\ what = "send"     -> "Error searching for app {}: {}"
      [] s = "search" /\ what = "status"   -> "Failed to search for app {}: HTTP {}"
      [] s = "search" /\ what = "read"     -> "Error reading search response for {}: {}"
      [] s = "search" /\ what = "notfound" -> "App {} not found on APKMirror"
      [] s = "app_page" /\ what = "send"   -> "Error accessing app page for {}: {}"
      [] s = "app_page" /\ what = "status" -> "Failed to access app page for {}: HTTP {}"
      [] s = "app_page" /\ what = "read"   -> "Error reading app page for {}: {}"

ListErrKinds ==
    {ListErrFmt(s, what) : s \in {"search", "app_page"}, what \in {"send", "status", "read"}}
      \cup {ListErrFmt("search", "notfound")}

\* What the end of the loop body prints for the detail page.
VersionLines(i, page) ==
    (IF Versions(page) = <<>>
     THEN <<ListLine("No versions found for {}", i, <<>>)>>
     ELSE [k \in 1..Len(Versions(page)) |->
              ListLine("Version: {} ({})", i, Versions(page)[k])])
    \o <<ListLine("", i, <<>>)>>

\* The variables list_versions has no use for.
ListFrame ==
    UNCHANGED <<source, app_ids, parallel, sleep_duration, in_progress, now,
                admitted_at, passed, filename, outcome, files, resolve_in, resolve_out>>

InitList ==
    /\ source \in Sources
    /\ app_ids \in Batches
    /\ parallel = 1
    /\ sleep_duration = 0
    /\ batch_pc = "list_start"
    /\ next_item = 1
    /\ in_progress = {}
    /\ pc = [i \in Idx |-> "queued"]
    /\ stage = [i \in Idx |-> ""]
    /\ url = [i \in Idx |-> <<>>]
    /\ now = 0
    /\ admitted_at = [i \in Idx |-> 0]
    /\ fetched = [i \in Idx |-> <<>>]
    /\ passed = [i \in Idx |-> <<>>]
    /\ filename = [i \in Idx |-> None]
    /\ outcome = [i \in Idx |-> None]
    /\ stdout = <<>>
    /\ files = {}
    /\ html = [i \in Idx |-> <<>>]
    /\ resolve_in = None
    /\ resolve_out = None

\* ListNextItem with `break` in the place of `continue`: a line that reports
\* an error ends the loop.
ListNextItemOrBreak(i, lines) ==
    LET j == i + 1
        broke == \E k \in 1..Len(lines) : lines[k].kind \in ListErrKinds
    IN  /\ next_item' = j
        /\ html' = [k \in Idx |-> IF k = i THEN <<>> ELSE html[k]]
        /\ IF j \in Idx /\ ~broke
           THEN /\ stdout' = stdout \o lines \o <<ListHeader(j)>>
                /\ pc' = [k \in Idx |-> IF k = i THEN "done"
                                        ELSE IF k = j THEN "send" ELSE pc[k]]
                /\ stage' = [stage EXCEPT ![j] = "search"]
                /\ url' = [url EXCEPT ![j] = SearchUrl("apkmirror", app_ids[j].app_id)]
                /\ fetched' = [fetched EXCEPT ![j] = <<"search">>]
                /\ batch_pc' = "listing"
           ELSE /\ stdout' = stdout \o lines
                /\ pc' = [k \in Idx |-> IF k = i THEN "done" ELSE pc[k]]
                /\ batch_pc' = "listed"
                /\ UNCHANGED <<stage, url, fetched>>

\* The loop body of identifier i ends (at its end or at a `continue`) having
\* printed `lines`; the loop goes on to identifier i + 1, prints its header
\* and issues its search GET, or the loop is over and list_versions returns.
\* i = 0 enters the loop.
ListNextItem(i, lines) ==
    LET j == i + 1
    IN  /\ next_item' = j
        /\ html' = [k \in Idx |-> IF k = i THEN <<>> ELSE html[k]]
        /\ IF j \in Idx
           THEN /\ stdout' = stdout \o lines \o <<ListHeader(j)>>
                /\ pc' = [k \in Idx |-> IF k = i THEN "done"
                                        ELSE IF k = j THEN "send" ELSE pc[k]]
                /\ stage' = [stage EXCEPT ![j] = "search"]
                /\ url' = [url EXCEPT ![j] = SearchUrl("apkmirror", app_ids[j].app_id)]
                /\ fetched' = [fetched EXCEPT ![j] = <<"search">>]
                /\ batch_pc' = "listing"
           ELSE /\ stdout' = stdout \o lines
                /\ pc' = [k \in Idx |-> IF k = i THEN "done" ELSE pc[k]]
                /\ batch_pc' = "listed"
                /\ UNCHANGED <<stage, url, fetched>>

\* apkmirror's list_versions is called: the client is built and the loop
\* is entered.
ListStart ==
    /\ batch_pc = "list_start"
    /\ source = "apkmirror"
    /\ ListNextItem(0, <<>>)
    /\ ListFrame

\* Client::builder().build().unwrap() panics.
ListClientPanics ==
    /\ batch_pc = "list_start"
    /\ source = "apkmirror"
    /\ batch_pc' = "panicked"
    /\ UNCHANGED <<next_item, pc, stage, url, fetched, stdout, html>>
    /\ ListFrame

\* apkcombo's list_versions: two lines, whatever the identifiers.
ListUnsupported ==
    /\ batch_pc = "list_start"
    /\ source = "apkcombo"
    /\ stdout' = <<ListLine("APKCombo does not support listing versions at this time.", 0, <<>>),
                   ListLine("Only the latest version of each app is available for download.", 0, <<>>)>>
    /\ batch_pc' = "listed"
    /\ UNCHANGED <<next_item, pc, stage, url, fetched, html>>
    /\ ListFrame

\* The identifier the loop is at, when a GET or a body read of it is pending.
ListAt(i) == batch_pc = "listing" /\ next_item = i

\* .send().await of the current GET returns Err.
ListSendFails(i) ==
    /\ ListAt(i) /\ pc[i] = "send"
    /\ ListNextItem(i, <<ListLine(ListErrFmt(stage[i], "send"), i, <<ErrText>>)>>)
    /\ ListFrame

\* .send().await of the current GET returns a response with `status`.
ListSendResponds(i, status) ==
    /\ ListAt(i) /\ pc[i] = "send"
    /\ IF IsSuccess(status)
       THEN /\ pc' = [pc EXCEPT ![i] = "text"]
            /\ UNCHANGED <<batch_pc, next_item, stage, url, fetched, stdout, html>>
       ELSE ListNextItem(i, <<ListLine(ListErrFmt(stage[i], "status"), i,
                                       <<StatusText(status)>>)>>)
    /\ ListFrame

\* .text().await of the current response returns Err.
ListTextFails(i) ==
    /\ ListAt(i) /\ pc[i] = "text"
    /\ ListNextItem(i, <<ListLine(ListErrFmt(stage[i], "read"), i, <<ErrText>>)>>)
    /\ ListFrame

\* The search results are read: the app link is found and the GET of the
\* app page is issued, or the identifier is reported as not found.
ListSearchResponds(i, page, form) ==
    /\ ListAt(i) /\ pc[i] = "text" /\ stage[i] = "search"
    /\ IF IsSome(FindAndThen("apkmirror", "search", page))
       THEN /\ html' = [html EXCEPT ![i] = page]
            /\ stage' = [stage EXCEPT ![i] = "app_page"]
            /\ url' = [url EXCEPT ![i] =
                          Link(form, Unwrap(FindAndThen("apkmirror", "search", page)))]
            /\ fetched' = [fetched EXCEPT ![i] = Append(@, "app_page")]
            /\ pc' = [pc EXCEPT ![i] = "send"]
            /\ UNCHANGED <<batch_pc, next_item, stdout>>
       ELSE ListNextItem(i, <<ListLine(ListErrFmt("search", "notfound"), i, <<>>)>>)
    /\ ListFrame

\* The app page is read: its versions are extracted and printed.
ListPageResponds(i, page) ==
    /\ ListAt(i) /\ pc[i] = "text" /\ stage[i] = "app_page"
    /\ ListNextItem(i, VersionLines(i, page))
    /\ ListFrame

NextList ==
    \/ ListStart
    \/ ListClientPanics
    \/ ListUnsupported
    \/ \E i \in Idx : ListSendFails(i)
    \/ \E i \in Idx : \E status \in Statuses : ListSendResponds(i, status)
    \/ \E i \in Idx : ListTextFails(i)
    \/ \E i \in Idx : \E page \in PageSamples("apkmirror", "search") :
          \E form \in LinkForms("apkmirror", "search") : ListSearchResponds(i, page, form)
    \/ \E i \in Idx : \E page \in ListPageSamples : ListPageResponds(i, page)

ListSpec == InitList /\ [][NextList]_vars

(***************************************************************************)
(* The extraction of the versions alone (the `for line in                  *)
(* app_html.lines()` loop of list_versions), applied to every detail page  *)
(* of ListPages.                                                           *)
(***************************************************************************)
InitVersions ==
    /\ source = "apkmirror"
    /\ app_ids \in {<<r>> : r \in Requests}
    /\ parallel = 1
    /\ sleep_duration = 0
    /\ batch_pc = "versions"
    /\ next_item = 1
    /\ in_progress = {}
    /\ pc = [i \in Idx |-> "text"]
    /\ stage = [i \in Idx |-> "app_page"]
    /\ url = [i \in Idx |-> <<>>]
    /\ now = 0
    /\ admitted_at = [i \in Idx |-> 0]
    /\ fetched = [i \in Idx |-> <<"search", "app_page">>]
    /\ passed = [i \in Idx |-> <<>>]
    /\ filename = [i \in Idx |-> None]
    /\ outcome = [i \in Idx |-> None]
    /\ stdout = <<>>
    /\ files = {}
    /\ html = [i \in Idx |-> <<>>]
    /\ resolve_in \in {Some(page) : page \in ListPages}
    /\ resolve_out = None

\* The loop runs on the detail page resolve_in.
ExtractVersions ==
    /\ batch_pc = "versions"
    /\ resolve_out = None
    /\ resolve_out' = Some(Versions(Unwrap(resolve_in)))
    /\ UNCHANGED <<source, app_ids, parallel, sleep_duration, batch_pc, next_item,
                   in_progress, pc, stage, url, now, admitted_at, fetched, passed,
                   filename, outcome, stdout, files, html, resolve_in>>

NextVersions == ExtractVersions

VersionsSpec == InitVersions /\ [][NextVersions]_vars

(***************************************************************************)
(* Claims about download_apps (checked under Spec).                        *)
(***************************************************************************)
ResultKinds == {"Successfully downloaded", "Error downloading"}

\* The positions of stdout that hold a result line of request i.
ResultLines(i) ==
    {k \in 1..Len(stdout) : stdout[k].i = i /\ stdout[k].kind \in ResultKinds}

Reported(i) == ResultLines(i) # {}

Started(i) == pc[i] # "queued"

\* Request i has a GET (or the read of its body) in progress.
Fetching(i) == pc[i] \in {"send", "text", "bytes"}

\* C1: the requests started and not yet reported are at most max_parallel,
\* a request beyond the cap is started only after a running one reported, and
\* with max_parallel = 1 no two requests have a fetch in progress together.
C1_ParallelCap ==
    /\ Cardinality({i \in Idx : Started(i) /\ ~Reported(i)}) <= parallel
    /\ \A i \in Idx :
          (i > parallel /\ Started(i)) =>
              Cardinality({j \in Idx : Reported(j)}) >= i - parallel
    /\ parallel = 1 => Cardinality({i \in Idx : Fetching(i)}) <= 1

\* The cap is full: one request fetches while the next one is still queued.
C1_Witness ==
    /\ Len(app_ids) = 2 /\ parallel = 1
    /\ Fetching(1) /\ ~Started(2)

Failed(i) == IsSome(outcome[i]) /\ ~Unwrap(outcome[i]).ok

Succeeded(i) == IsSome(outcome[i]) /\ Unwrap(outcome[i]).ok

\* The files of the output directory last written by request i.
FilesBy(i) == {f \in files : f.by = i}

\* No request has two result lines, a request is done exactly when it has
\* its line, and a returned batch has one line for every request.
C3_Once ==
    /\ \A i \in Idx : Cardinality(ResultLines(i)) <= 1
    /\ \A i \in Idx : Reported(i) <=> pc[i] = "done"
    /\ \A i \in Idx : Reported(i) <=> IsSome(outcome[i])
    /\ \A i \in Idx : \A k \in ResultLines(i) :
          stdout[k].kind = "Successfully downloaded" <=> Succeeded(i)
    /\ batch_pc = "returned" => \A i \in Idx : Cardinality(ResultLines(i)) = 1

\* A step from a state where request i has failed issues no GET and no
\* file write for i, and prints no further line for it.
C3_NoRetry ==
    \A i \in Idx :
        Failed(i) =>
            /\ fetched'[i] = fetched[i]
            /\ FilesBy(i)' \subseteq FilesBy(i)
            /\ ResultLines(i)' = ResultLines(i)
            /\ pc'[i] = "done"

\* C3: within one batch each request is reported exactly once (one success
\* line or one error line, never both, never twice), and after a request has
\* failed no further fetch or file write is issued for it.
C3_ReportedOnce == []C3_Once /\ [][C3_NoRetry]_vars

\* A batch that returned after its first request failed at a stage and its
\* second request went through its own stages and was saved.
C3_Witness ==
    /\ batch_pc = "returned" /\ Len(app_ids) = 2
    /\ Failed(1) /\ fetched[1] # <<>>
    /\ Succeeded(2)
    /\ Len(stdout) >= 2

AllReported == batch_pc = "returned" /\ \A i \in Idx : Reported(i)

\* The step in which request i fails leaves every sibling where it is, or
\* starts a queued one: it cancels none.
C2_NoCancel ==
    \A i \in Idx :
        (~Failed(i) /\ Failed(i)') =>
            \A j \in Idx \ {i} :
                /\ fetched'[j] = fetched[j]
                /\ outcome'[j] = outcome[j]
                /\ pc'[j] = pc[j] \/ (pc[j] = "queued" /\ pc'[j] = "sleep")

\* C2 (checked under FairSpec): when every sleep, fetch and file write
\* eventually returns, download_apps reports an outcome for every request and
\* then returns; a failure of one request cancels or blocks no sibling.
C2_RunsToCompletion == <>AllReported /\ [][C2_NoCancel]_vars

\* The second request of a batch with max_parallel = 1 was queued while the
\* first one failed, and was then started and fetched.
C2_Witness ==
    /\ Len(app_ids) = 2 /\ parallel = 1
    /\ Failed(1)
    /\ stdout # <<>> /\ stdout[1].i = 1 /\ stdout[1].kind = "Error downloading"
    /\ Succeeded(2) /\ AllReported

\* C6: no request issues its first GET before its sleep of sleep_duration
\* has fully elapsed, and a non-empty batch run with max_parallel = n returns
\* no earlier than sleep_duration after it was called (the clock starts at 0).
C6_PacingBeforeFetch ==
    /\ \A i \in Idx : fetched[i] # <<>> => now >= admitted_at[i] + sleep_duration
    /\ (batch_pc = "returned" /\ Len(app_ids) >= 1 /\ parallel = Len(app_ids))
          => now >= sleep_duration

\* Two requests run with max_parallel = 2 and a sleep of MaxSleep; both have
\* fetched and the batch returned exactly MaxSleep after the call.
C6_Witness ==
    /\ Len(app_ids) = 2 /\ parallel = 2 /\ sleep_duration = MaxSleep /\ MaxSleep > 0
    /\ batch_pc = "returned" /\ now = sleep_duration
    /\ fetched[1] # <<>> /\ fetched[2] # <<>>

\* C7 as stated (the batch is called at clock 0): the pacing wait of every
\* request runs from the moment the batch is scheduled, whatever its siblings do: once sleep_duration has
\* elapsed since the call, a request that has not begun its work can begin it,
\* also when the batch holds more requests than max_parallel.
C7_Stated ==
    \A i \in Idx :
        (batch_pc = "polling" /\ now >= sleep_duration
            /\ pc[i] \in {"queued", "sleep"})
        => ENABLED BeginDownload(i)

\* C7 amended: the pacing wait of a request starts when the request is
\* admitted under the cap and from then on runs independently of its siblings:
\* an admitted request can begin its work exactly from sleep_duration after
\* its admission, whatever the siblings do.  The first max_parallel requests
\* are admitted when the batch is called; a request beyond the cap is not
\* admitted, and its wait does not start, before a sibling has finished.
C7_PacingFromAdmission ==
    /\ \A i \in Idx :
          pc[i] = "sleep" =>
              ((ENABLED BeginDownload(i)) <=> now >= admitted_at[i] + sleep_duration)
    /\ \A i \in Idx : pc[i] = "queued" => ~ENABLED BeginDownload(i)
    /\ batch_pc # "start" =>
          \A i \in Idx : i <= parallel => (Started(i) /\ admitted_at[i] = 0)
    /\ \A i \in Idx :
          (i > parallel /\ Started(i)) =>
              \E j \in Idx \ {i} : pc[j] = "done" /\ admitted_at[i] >= admitted_at[j] + sleep_duration

\* The second request of a batch with max_parallel = 1 waits for its own
\* sleep while the first one is done: its sleep started later than the call.
C7_Witness ==
    /\ Len(app_ids) = 2 /\ parallel = 1 /\ sleep_duration > 0
    /\ pc[1] = "done" /\ pc[2] = "sleep"
    /\ admitted_at[2] > 0
    /\ now >= admitted_at[2] + sleep_duration

\* The filename request i reported as saved.
SavedName(i) == Unwrap(outcome[i]).filename

\* C10 as stated: no two requests that both report 'Successfully downloaded'
\* wrote to the same file path.
C10_Stated ==
    \A i \in Idx : \A j \in Idx :
        (i # j /\ Succeeded(i) /\ Succeeded(j)) => SavedName(i) # SavedName(j)

WriteFailed(i) ==
    Failed(i) /\ Unwrap(outcome[i]).reason.fmt = "Failed to write APK data to file: {}"

\* The requests that created the file `name`.
Creators(name) ==
    {i \in Idx : (Succeeded(i) \/ WriteFailed(i)) /\ filename[i] = Some(name)}

ReportPos(i) == CHOOSE k \in ResultLines(i) : TRUE

\* C10 amended: nothing makes the filenames of a batch distinct.  Each request
\* writes the file named by its own resolved filename, so two successful
\* requests wrote to different paths exactly when their filenames differ;
\* requests that resolve to the same filename (the same identifier twice, with
\* synthesized names) write the same path, and the file is left as written by
\* the one of them that finished last.
C10_LastWriterWins ==
    /\ \A i \in Idx : Succeeded(i) =>
          /\ filename[i] = Some(SavedName(i))
          /\ \E f \in files : f.name = SavedName(i)
    /\ \A f \in files : \A g \in files : f.name = g.name => f = g
    /\ \A f \in files :
          /\ f.by \in Creators(f.name)
          /\ \A j \in Creators(f.name) : ReportPos(j) <= ReportPos(f.by)
          /\ f.complete <=> Succeeded(f.by)

\* The same identifier twice: both requests report a.apk as saved, and the
\* one file a.apk is the second finisher's.
C10_Witness ==
    /\ batch_pc = "returned" /\ Len(app_ids) = 2
    /\ Request(1) = Request(2)
    /\ Succeeded(1) /\ Succeeded(2)
    /\ SavedName(1) = Synthesized(source, Request(1).app_id, Version(1))
    /\ SavedName(2) = SavedName(1)
    /\ \E f \in files : f.name = SavedName(1) /\ f.by = stdout[Len(stdout)].i
    /\ Cardinality(files) = 1

(***************************************************************************)
(* Claims about download_app (checked under ChainSpec).                    *)
(***************************************************************************)
IsPrefix(a, b) == Len(a) <= Len(b) /\ SubSeq(b, 1, Len(a)) = a

Stages(i) == StageList(source, Version(i))

Reason(i) == Unwrap(outcome[i]).reason

\* The format strings of the failures of stage s.
FailureFmts(s) ==
    {SendErrFmt(s), HttpErrFmt(s), ReadErrFmt(s)}
      \cup (IF s = "download"
            THEN {"Failed to create output file: {}", "Failed to write APK data to file: {}"}
            ELSE {NotFoundMsg(source, s, <<>>, Some(<<>>)).fmt})

\* The GETs of a request follow the source's stage order, the GET of a stage
\* is issued only when every stage before it is completed, and a finished
\* chain is Done (every stage completed) or failed at the one stage fetched
\* last (or before any stage, building the client).
C4_Chain ==
    \A i \in Idx :
        /\ IsPrefix(fetched[i], Stages(i))
        /\ IsPrefix(passed[i], fetched[i])
        /\ Len(fetched[i]) <= Len(passed[i]) + 1
        /\ Succeeded(i) => passed[i] = Stages(i)
        /\ Failed(i) =>
              IF fetched[i] = <<>>
              THEN Reason(i).fmt = "Failed to create HTTP client: {}"
              ELSE /\ Len(fetched[i]) = Len(passed[i]) + 1
                   /\ Reason(i).fmt \in FailureFmts(fetched[i][Len(fetched[i])])

\* A stage that answers non-2xx, or whose page the extraction does not match,
\* fails the request at that stage and issues no GET; no step issues a GET for
\* a failed request.
C4_FailsAtStage ==
    \A i \in Idx :
        /\ \A status \in Statuses :
              ((status < 200 \/ status > 299) /\ SendResponds(i, status)) =>
                  /\ Failed(i)' /\ fetched'[i] = fetched[i]
                  /\ Reason(i)'.fmt = HttpErrFmt(stage[i])
        /\ \A page \in Pages(source, stage[i]) :
              ((\E form \in LinkForms(source, stage[i]) : TextResponds(i, page, form))
                  /\ ~IsSome(Extract(source, stage[i], page))) =>
                  /\ Failed(i)' /\ fetched'[i] = fetched[i]
                  /\ Reason(i)' = NotFoundMsg(source, stage[i], Request(i).app_id, Version(i))
        /\ Failed(i) => fetched'[i] = fetched[i]

\* C4: the stages of download_app run strictly in the source's order; the GET
\* of stage k+1 is issued only after stage k returned 2xx and its extraction
\* matched; a stage k that returns non-2xx or finds no match fails the request
\* at k with no later GET; the chain ends Done or failed at a single stage.
C4_StagesInOrder == []C4_Chain /\ [][C4_FailsAtStage]_vars

\* An apkmirror request passed its first two stages and failed at the
\* version page with a non-2xx status: three GETs and no more.
C4_Witness ==
    /\ source = "apkmirror" /\ batch_pc = "returned"
    /\ Failed(1)
    /\ Reason(1).fmt = HttpErrFmt("version_page")
    /\ Len(passed[1]) = 2 /\ Len(fetched[1]) = 3

HasVersion(i) == IsSome(Request(i).version)

\* C5 as stated: in every source, a request that carries a version is saved
\* only through the stage that locates that version.
C5_Stated ==
    \A i \in Idx :
        (HasVersion(i) /\ Succeeded(i)) => "version_search" \in Range(passed[i])

\* apkmirror with a version never takes the latest-version path and saves
\* only after the version was located; apkcombo with a version warns when the
\* request is started and then takes its only path, the latest version's.
C5_VersionPath ==
    \A i \in Idx :
        HasVersion(i) =>
            IF source = "apkmirror"
            THEN /\ "app_page" \notin Range(fetched[i])
                 /\ Succeeded(i) => "version_search" \in Range(passed[i])
            ELSE /\ Started(i) => \E k \in 1..Len(stdout) :
                                      stdout[k].i = i /\ stdout[k].kind = "Warning"
                 /\ "version_search" \notin Range(fetched[i])
                 /\ Succeeded(i) => "app_page" \in Range(passed[i])

\* apkmirror: a version page with no line that holds both the version string
\* and "downloadButton" fails the request with 'Version {} not found for {}'
\* and leaves the output directory alone.
C5_VersionNotFound ==
    \A i \in Idx :
        (source = "apkmirror" /\ HasVersion(i) /\ stage[i] = "version_search") =>
            \A page \in Pages(source, stage[i]) :
                (/\ \E form \in LinkForms(source, stage[i]) : TextResponds(i, page, form)
                 /\ ~\E k \in 1..Len(page) : {"version_str", "downloadButton"} \subseteq page[k])
                => /\ outcome'[i] = Some(Err(Msg("Version {} not found for {}",
                                         <<Unwrap(Request(i).version), Request(i).app_id>>)))
                   /\ files' = files

\* C5 amended: in apkmirror a request that carries a version never ends with
\* the latest binary saved: when no line of the version page holds both the
\* version string and "downloadButton" (even if the version string is on
\* another line) the outcome is Failed 'version not found', and the
\* latest-version path is never taken.  apkcombo ignores the version: its
\* download_apps prints a warning and downloads the latest version.
C5_NoFallbackInApkmirror == []C5_VersionPath /\ [][C5_VersionNotFound]_vars

\* An apkmirror request with a version failed with 'version not found'.
C5_Witness ==
    /\ source = "apkmirror" /\ HasVersion(1)
    /\ Failed(1)
    /\ Reason(1).fmt = "Version {} not found for {}"
    /\ fetched[1] = <<"search", "version_search">>
    /\ files = {}

(***************************************************************************)
(* Claims C8, C9: the filename of the saved file (checked under FnSpec).   *)
(***************************************************************************)
Resolved == batch_pc = "filename" /\ IsSome(resolve_out)

Header == Unwrap(resolve_in)

\* The header is absent, or its value holds no filename parameter.
NoFilenameParam ==
    ~IsSome(Header) \/ \A k \in 1..Len(Unwrap(Header)) : Unwrap(Header)[k] # FilenameEq

IdApk(r) == r.app_id \o <<Apk>>

IdVersionApk(r) == r.app_id \o <<Dash>> \o Unwrap(r.version) \o <<Apk>>

\* C8 as stated: with no content-disposition filename, the saved filename is
\* '{identifier}.apk' for a request without a version and
\* '{identifier}-{version}.apk' for a request with one, in both sources.
C8_Stated ==
    (Resolved /\ NoFilenameParam) =>
        Unwrap(resolve_out) =
            IF IsSome(Request(1).version) THEN IdVersionApk(Request(1)) ELSE IdApk(Request(1))

\* C8 amended: with no content-disposition filename, apkmirror saves
\* '{identifier}.apk' without a version and '{identifier}-{version}.apk' with
\* one; apkcombo saves '{identifier}.apk' whether or not a version was given.
C8_SynthesizedName ==
    (Resolved /\ NoFilenameParam) =>
        Unwrap(resolve_out) =
            IF source = "apkmirror" /\ IsSome(Request(1).version)
            THEN IdVersionApk(Request(1)) ELSE IdApk(Request(1))

\* A request with a version, resolved from a header that is present and
\* holds no filename parameter.
C8_Witness ==
    /\ Resolved
    /\ IsSome(Request(1).version)
    /\ IsSome(Header) /\ Unwrap(Header) # <<>> /\ NoFilenameParam
    /\ Unwrap(resolve_out) \in {IdApk(Request(1)), IdVersionApk(Request(1))}

\* The X of hv's first filename parameter when it is the quoted
\* filename="X" (a set of at most one name).
QuotedParam(hv) ==
    LET Is(p, q) ==
            /\ hv[p] = FilenameEq /\ \A k \in 1..(p - 1) : hv[k] # FilenameEq
            /\ q > p + 2 /\ hv[p + 1] = Quote /\ hv[q] = Quote
            /\ \A k \in (p + 2)..(q - 1) : hv[k] # Quote
    IN  {SubSeq(hv, pq[1] + 2, pq[2] - 1) :
            pq \in {x \in (1..Len(hv)) \X (1..Len(hv)) : Is(x[1], x[2])}}

\* The X of hv's first filename parameter when it is the bare filename=X:
\* X runs to the next semicolon or to the end of the value, and does not
\* open with a quote.
BareParam(hv) ==
    LET Is(p, e) ==
            /\ hv[p] = FilenameEq /\ \A k \in 1..(p - 1) : hv[k] # FilenameEq
            /\ e > p /\ hv[p + 1] # Quote
            /\ \A k \in (p + 1)..e : hv[k] # Semi
            /\ (e = Len(hv) \/ hv[e + 1] = Semi)
    IN  {SubSeq(hv, pe[1] + 1, pe[2]) :
            pe \in {x \in (1..Len(hv)) \X (1..Len(hv)) : Is(x[1], x[2])}}

VisibleAscii(hv) == \A k \in 1..Len(hv) : hv[k] # NonAscii

\* C9 as stated: whenever the content-disposition header carries a filename
\* parameter, quoted or bare, the saved filename is exactly its value X.
C9_Stated ==
    (Resolved /\ IsSome(Header)) =>
        \A X \in QuotedParam(Unwrap(Header)) \cup BareParam(Unwrap(Header)) :
            Unwrap(resolve_out) = X

\* C9 amended: whenever the content-disposition header is visible ASCII and
\* carries a filename parameter, quoted or bare, the saved filename is exactly
\* its value X; a header value with a byte that is not visible ASCII is
\* ignored and the synthesized name is saved.
C9_HeaderPrecedence ==
    (Resolved /\ IsSome(Header)) =>
        IF VisibleAscii(Unwrap(Header))
        THEN \A X \in QuotedParam(Unwrap(Header)) \cup BareParam(Unwrap(Header)) :
                Unwrap(resolve_out) = X
        ELSE Unwrap(resolve_out) = Synthesized(source, Request(1).app_id, Version(1))

\* A visible-ASCII header with the quoted filename="x", resolved to x for a
\* request whose synthesized name is another one.
C9_Witness ==
    /\ Resolved
    /\ Header = Some(<<FilenameEq, Quote, "x", Quote>>)
    /\ QuotedParam(Unwrap(Header)) = {<<"x">>}
    /\ Unwrap(resolve_out) = <<"x">>

(***************************************************************************)
(* Claims about list_versions (checked under ListSpec).                    *)
(***************************************************************************)
\* The positions of stdout that hold a line of one of `kinds` for identifier i.
LinesOf(i, kinds) ==
    {k \in 1..Len(stdout) : stdout[k].i = i /\ stdout[k].kind \in kinds}

VersionsListed(i) == LinesOf(i, {"Version: {} ({})"}) # {}

NoVersionsFound(i) == LinesOf(i, {"No versions found for {}"}) # {}

ListError(i) == LinesOf(i, ListErrKinds) # {}

\* Identifier i yielded exactly one of: 'Version:' lines, one 'No versions
\* found' line, one error line.
YieldedOnce(i) ==
    /\ Cardinality({o \in {"v", "n", "e"} :
                      \/ o = "v" /\ VersionsListed(i)
                      \/ o = "n" /\ NoVersionsFound(i)
                      \/ o = "e" /\ ListError(i)}) = 1
    /\ Cardinality(LinesOf(i, {"No versions found for {}"})) <= 1
    /\ Cardinality(LinesOf(i, ListErrKinds)) <= 1

YieldedNothing(i) == ~VersionsListed(i) /\ ~NoVersionsFound(i) /\ ~ListError(i)

\* The identifiers with a GET or a body read pending.
ListFetching == {i \in Idx : pc[i] \in {"send", "text"}}

C11_Sequential ==
    /\ Cardinality(ListFetching) <= 1
    /\ batch_pc = "listing" =>
          /\ next_item \in Idx /\ ListFetching = {next_item}
          /\ \A j \in Idx : j < next_item => pc[j] = "done"
          /\ \A j \in Idx : j > next_item => pc[j] = "queued"
    /\ (batch_pc = "listed" /\ source = "apkmirror") => \A i \in Idx : pc[i] = "done"
    /\ \A i \in Idx : pc[i] = "done" => YieldedOnce(i)
    /\ \A i \in Idx : pc[i] # "done" => YieldedNothing(i)
    /\ \A k \in 1..Len(stdout) : \A m \in 1..Len(stdout) :
          (k < m /\ stdout[k].i \in Idx /\ stdout[m].i \in Idx) => stdout[k].i <= stdout[m].i

DetailPage == Unwrap(resolve_in)

\* The lines of the page that hold a version marker, in document order.
RECURSIVE MarkersFrom(_, _)
MarkersFrom(page, k) ==
    IF k > Len(page) THEN <<>>
    ELSE (IF IsSome(page[k].version) THEN <<k>> ELSE <<>>) \o MarkersFrom(page, k + 1)

\* The date marker nearest to line k among the Window lines from k on, or
\* 'unknown'.
NearestDateFrom(page, k) ==
    LET d == First({m \in k..Min(k + Window - 1, Len(page)) : IsSome(page[m].date)})
    IN  IF d # 0 THEN Unwrap(page[d].date) ELSE UnknownDate

\* C12: the entries are one per version-marker line, in document order, and
\* each version is paired with the nearest date marker at or following its
\* own marker line within the window (else 'unknown'), never with the date of
\* an earlier version marker, also when the version string is a substring of
\* an earlier line.
C12_Stated ==
    (batch_pc = "versions" /\ IsSome(resolve_out)) =>
        LET markers == MarkersFrom(DetailPage, 1)
        IN  Unwrap(resolve_out) =
                [n \in 1..Len(markers) |->
                    <<Unwrap(DetailPage[markers[n]].version),
                      NearestDateFrom(DetailPage, markers[n])>>]

(***************************************************************************)
(* Claims C13..C16 about download_app (checked under ChainSpec).           *)
(***************************************************************************)
LineFiltered(s) == LineFilterWords(source, s) # {}

\* The lines of the page that satisfy the filter of stage s and match its
\* pattern.
Candidates(s, page) ==
    {k \in 1..Len(page) : LineFilterWords(source, s) \subseteq page[k] /\ "pattern" \in page[k]}

\* Request i failed at stage s because the extraction found nothing.
NotFoundAt(i, s) ==
    /\ Failed(i) /\ stage[i] = s
    /\ Reason(i) = NotFoundMsg(source, s, Request(i).app_id, Version(i))

\* Request i has just passed stage s: the GET made from its capture is issued.
JustPassed(i, s) ==
    /\ pc[i] = "send" /\ passed[i] # <<>> /\ passed[i][Len(passed[i])] = s

\* C13: at every line-filtered stage the capture taken is the one of the
\* first line, in document order, that both satisfies the line filter and
\* matches the pattern, and the stage reports 'not found' only if no line
\* that satisfies the filter matches the pattern.
C13_Stated ==
    \A i \in Idx : \A s \in Range(Stages(i)) :
        LineFiltered(s) =>
            /\ NotFoundAt(i, s) => Candidates(s, html[i]) = {}
            /\ JustPassed(i, s) =>
                  /\ Candidates(s, html[i]) # {}
                  /\ \E form \in LinkForms(source, s) :
                        url[i] = NextUrl(source, s, Link(form, First(Candidates(s, html[i]))),
                                         Version(i))

\* The link has a scheme and a host.
IsAbsolute(link) == Len(link) >= 2 /\ link[1] = Http /\ link[2] = "s://host"

\* The query the version search appends to the app's link.
VersionQuery(i, s) ==
    IF source = "apkmirror" /\ s = "search" /\ IsSome(Version(i))
    THEN <<"/?q=">> \o Unwrap(Version(i)) ELSE <<>>

\* C14: at every stage of both sources, the next URL made from the extracted
\* link is the link itself when the link is already absolute, and the
\* source's base origin followed by the link otherwise (the version search
\* adds its query to it).
C14_Stated ==
    \A i \in Idx : \A s \in Range(Stages(i)) :
        JustPassed(i, s) =>
            \E form \in LinkForms(source, s) :
                LET link == Link(form, Unwrap(Extract(source, s, html[i])))
                IN  url[i] = (IF IsAbsolute(link) THEN link ELSE BaseOrigin(source) \o link)
                                \o VersionQuery(i, s)

\* C15 as stated: a fully successful chain of a request with a version has
\* fetched every stage of the chain without a version, the detail page
\* included, plus one more stage.
C15_Stated ==
    \A i \in Idx :
        (HasVersion(i) /\ Succeeded(i)) =>
            /\ Len(fetched[i]) = Len(StageList(source, None)) + 1
            /\ Range(StageList(source, None)) \subseteq Range(fetched[i])

\* C15 amended: in apkmirror a request with a target version runs the 'locate
\* specific version' stage in the place of the detail-page (latest version)
\* stage: its second GET is the version search, at the app's link followed by
\* the query for the version, the detail page is never fetched, and a fully
\* successful chain has as many fetch+extract stages with a version as
\* without.  apkcombo's chain is the same with and without a version.
C15_VersionStageReplaces ==
    \A i \in Idx :
        /\ (source = "apkmirror" /\ HasVersion(i)) =>
              /\ "app_page" \notin Range(fetched[i])
              /\ (stage[i] = "version_search" /\ pc[i] = "send") =>
                    \E k \in 1..Len(html[i]) :
                        url[i] = Link("absolute", k) \o <<"/?q=">> \o Unwrap(Request(i).version)
              /\ Succeeded(i) =>
                    fetched[i] = <<"search", "version_search", "version_page",
                                   "download_page", "download">>
        /\ (source = "apkmirror" /\ ~HasVersion(i) /\ Succeeded(i)) =>
              fetched[i] = <<"search", "app_page", "version_page",
                             "download_page", "download">>
        /\ (source = "apkcombo" /\ Succeeded(i)) =>
              fetched[i] = <<"search", "app_page", "download_page", "download">>

\* A fully successful apkmirror request with a version: five GETs.
C15_Witness ==
    /\ source = "apkmirror" /\ HasVersion(1) /\ Succeeded(1)
    /\ Len(fetched[1]) = 5 /\ fetched[1][2] = "version_search"

\* The text of a message: the literal text of its format string, followed
\* by the texts of its arguments.
RECURSIVE Concat(_)
Concat(seqs) == IF seqs = <<>> THEN <<>> ELSE Head(seqs) \o Concat(Tail(seqs))

ReasonText(msg) == <<msg.fmt>> \o Concat(msg.args)

\* The reason texts the failures of stage t of request i produce.
FailTexts(i, t) ==
    {ReasonText(Msg(SendErrFmt(t), <<ErrText>>)), ReasonText(Msg(ReadErrFmt(t), <<ErrText>>))}
      \cup {ReasonText(Msg(HttpErrFmt(t), <<StatusText(st)>>)) :
               st \in {x \in Statuses : x < 200 \/ x > 299}}
      \cup (IF t = "download"
            THEN {ReasonText(Msg("Failed to create output file: {}", <<ErrText>>)),
                  ReasonText(Msg("Failed to write APK data to file: {}", <<ErrText>>))}
            ELSE {ReasonText(NotFoundMsg(source, t, Request(i).app_id, Version(i)))})

\* C16: a failure of download_app has one reason, whose text is one of the
\* failing stage's and of no other stage of the source (the text of a failure
\* to build the client, before the first stage, is of no stage); the non-2xx
\* text of a stage is not a 'not found' text; and the line reporting the
\* failure names the request's identifier and carries that reason.
C16_ReasonNamesStage ==
    \A i \in Idx :
        Failed(i) =>
            /\ IF fetched[i] = <<>>
               THEN /\ Reason(i).fmt = "Failed to create HTTP client: {}"
                    /\ \A t \in Range(Stages(i)) : ReasonText(Reason(i)) \notin FailTexts(i, t)
               ELSE /\ ReasonText(Reason(i)) \in FailTexts(i, stage[i])
                    /\ \A t \in Range(Stages(i)) \ {stage[i]} :
                          ReasonText(Reason(i)) \notin FailTexts(i, t)
                    /\ \A st \in Statuses : \A t \in Range(Stages(i)) \ {"download"} :
                          ReasonText(Msg(HttpErrFmt(stage[i]), <<StatusText(st)>>))
                             # ReasonText(NotFoundMsg(source, t, Request(i).app_id, Version(i)))
            /\ Cardinality(ResultLines(i)) = 1
            /\ \A k \in ResultLines(i) :
                  /\ stdout[k].kind = "Error downloading"
                  /\ stdout[k].app_id = Request(i).app_id
                  /\ stdout[k].reason = Reason(i)

\* An apkcombo request failed at its download page, where no final link was
\* found, after two stages that passed.
C16_Witness ==
    /\ source = "apkcombo" /\ Failed(1)
    /\ stage[1] = "download_page" /\ Len(passed[1]) = 2
    /\ Reason(1) = Msg("Final APK download link not found for {}", <<Request(1).app_id>>)
    /\ stdout[Len(stdout)].reason = Reason(1)

(***************************************************************************)
(* Claims C17..C20 about download_apps (checked under Spec).               *)
(***************************************************************************)
\* Request i finishes in this step.
Finishes(i) == ~IsSome(outcome[i]) /\ IsSome(outcome'[i])

\* The step in which a request finishes prints its result line right after
\* the lines printed so far, and no step removes or reorders a printed line.
C17_ReportedWhenFinished ==
    /\ IsPrefix(stdout, stdout')
    /\ \A i \in Idx :
          Finishes(i) =>
              /\ Len(stdout') > Len(stdout)
              /\ stdout'[Len(stdout) + 1] = ResultLine(i, Unwrap(outcome'[i]))
    /\ Cardinality({i \in Idx : Finishes(i)}) <= 1

\* Every finished request has its line, and a request that has not finished
\* has none.
C17_ReportedIffFinished ==
    \A i \in Idx : IsSome(outcome[i]) <=> Reported(i)

\* C17: the result lines of a batch are in the order in which the requests
\* finish, not in the input order: a request's line is printed in the step
\* in which it finishes, after the lines of the requests that finished before.
C17_FirstCompletedFirstReported ==
    []C17_ReportedIffFinished /\ [][C17_ReportedWhenFinished]_vars

\* With max_parallel = 2 the second request of the input finished and was
\* reported while the first one was still fetching, and the first one's line
\* came after it.
C17_Witness ==
    /\ Len(app_ids) = 2 /\ parallel = 2 /\ batch_pc = "returned"
    /\ Reported(1) /\ Reported(2)
    /\ ReportPos(2) < ReportPos(1)

Waiting(i) == pc[i] = "sleep"

\* C18: a request's pacing wait begins when the request is admitted under
\* the cap, and the waiting request occupies a slot: the waiting and the
\* fetching requests together are at most max_parallel; with max_parallel = 1
\* no two requests wait at the same time, the wait of a request begins no
\* earlier than the end of the wait of the request before it, and a batch of
\* n requests returns no earlier than n * sleep_duration after its call (at
\* clock 0).
C18_WaitOccupiesSlot ==
    /\ \A i \in Idx : Waiting(i) => (i \in in_progress /\ now >= admitted_at[i])
    /\ \A i \in Idx : (Waiting(i) \/ Fetching(i)) <=> i \in in_progress
    /\ Cardinality({i \in Idx : Waiting(i) \/ Fetching(i)}) <= parallel
    /\ parallel = 1 =>
          /\ Cardinality({i \in Idx : Waiting(i)}) <= 1
          /\ \A i \in Idx : \A j \in Idx :
                (i < j /\ Started(j)) => admitted_at[j] >= admitted_at[i] + sleep_duration
          /\ \A i \in Idx : fetched[i] # <<>> => now >= i * sleep_duration
          /\ batch_pc = "returned" => now >= Len(app_ids) * sleep_duration

\* Two requests run with max_parallel = 1 and a positive sleep: the batch
\* returned exactly two sleeps after its call.
C18_Witness ==
    /\ Len(app_ids) = 2 /\ parallel = 1 /\ sleep_duration > 0
    /\ batch_pc = "returned"
    /\ now = 2 * sleep_duration
    /\ admitted_at[2] = sleep_duration

\* The reasons of the failures of File::create and write_all.
FileFailureFmts ==
    {"Failed to create output file: {}", "Failed to write APK data to file: {}"}

\* The step that changes the output directory is the one in which a request
\* whose page stages all passed and whose binary GET returned 2xx has its
\* body read; the step in which a request fails at a search, page,
\* extraction or binary-fetch stage leaves the directory as it is; the step
\* in which a request succeeds leaves the file it names written by it.
C19_WriteStep ==
    /\ files' # files =>
          \E i \in Idx :
              /\ pc[i] = "bytes" /\ stage[i] = "download" /\ pc'[i] = "done"
              /\ fetched[i] = Stages(i)
              /\ Append(passed[i], "download") = Stages(i)
              /\ \E f \in files' : f.by = i /\ f.name = Unwrap(filename[i])
              /\ \A f \in files' \ files : f.by = i
    /\ \A i \in Idx :
          (Finishes(i) /\ Failed(i)' /\ Reason(i)'.fmt \notin FileFailureFmts) =>
              files' = files
    /\ \A i \in Idx :
          (Finishes(i) /\ Succeeded(i)') =>
              [name |-> SavedName(i)', by |-> i, complete |-> TRUE] \in files'

\* A request that failed before the file operations has written no file, and
\* the file a successful request reported is in the directory.
C19_Directory ==
    \A i \in Idx :
        /\ (~IsSome(outcome[i]) \/ (Failed(i) /\ Reason(i).fmt \notin FileFailureFmts)) =>
              \A f \in files : f.by # i
        /\ Succeeded(i) => \E f \in files : f.name = SavedName(i)

\* C19: the output directory is modified for a request only after every
\* resolution stage and the binary fetch returned 2xx and the binary body was
\* read; a request that fails at a search, page, extraction or binary-fetch
\* stage leaves the directory unchanged; a request reported as successfully
\* downloaded as {filename} has written the file {filename}.
C19_WritesOnlyAfterFetch == []C19_Directory /\ [][C19_WriteStep]_vars

\* The first request failed reading the binary's body and the second one
\* was saved: the directory holds the second one's file only.
C19_Witness ==
    /\ Len(app_ids) = 2 /\ batch_pc = "returned"
    /\ Failed(1) /\ Reason(1).fmt = "Failed to read APK data: {}"
    /\ Succeeded(2)
    /\ files = {[name |-> SavedName(2), by |-> 2, complete |-> TRUE]}

\* The requests that start in this step.
Admitted == {i \in Idx : ~Started(i) /\ Started(i)'}

\* The started requests are the first ones of the input, and none of them
\* started its wait earlier than one before it.
C20_Order ==
    /\ \A i \in Idx : Started(i) <=> i < next_item
    /\ \A i \in Idx : \A j \in Idx :
          (j < i /\ Started(i)) => (Started(j) /\ admitted_at[j] <= admitted_at[i])

\* The requests that start in a step are the next ones of the input, and
\* they start their pacing wait at once.
C20_AdmitsNext ==
    /\ \A i \in Admitted : \A j \in 1..(i - 1) : Started(j)'
    /\ \A i \in Admitted : pc'[i] = "sleep" /\ admitted_at'[i] = now
    /\ \A i \in Idx : Started(i) => Started(i)'

\* C20: requests are started in input order, for any max_parallel >= 1: a
\* request starts its pacing wait only after every request that precedes it
\* in the input has been started.
C20_AdmittedInInputOrder == []C20_Order /\ [][C20_AdmitsNext]_vars

\* With max_parallel = 1 the second request is started, later than the
\* first, in the step in which the first one finished.
C20_Witness ==
    /\ Len(app_ids) = 2 /\ parallel = 1 /\ sleep_duration > 0
    /\ pc[1] = "done" /\ Waiting(2)
    /\ admitted_at[1] = 0 /\ admitted_at[2] >= sleep_duration
    /\ now = admitted_at[2]

====
